---- MODULE Spec2Model ----
(***************************************************************************)
(* The SIR and SEIRDS compartmental models of sir-basic-model.py and       *)
(* seirds-epidemiology-model.py: the derivative functions, the two model   *)
(* functions and the odeint call that drives them.                         *)
(*                                                                         *)
(* Python floats are IEEE binary64.  A value is a record                   *)
(*   [k, s, m, e]  with  k = "fin": the number s * m * 2^e, s in {-1,0,1},  *)
(*                        m a natural number held as base-2^15 limbs       *)
(*                        (least significant first), odd unless zero;      *)
(*                 k = "inf": s * infinity;   k = "nan": not a number.      *)
(* Every arithmetic operator computes the exact result and rounds it to    *)
(* 53 significant bits, ties to even, as the hardware does.                *)
(***************************************************************************)
EXTENDS Integers, Sequences, FiniteSets, TLC

(* ---------------------------------------------------------------------- *)
(* Natural numbers of any size, as sequences of limbs.                     *)
(* ---------------------------------------------------------------------- *)
LimbBits == 15
Base == 32768
Precision == 53

Zeros(n) == [i \in 1..n |-> 0]

RECURSIVE BTrim(_)
BTrim(x) ==
  IF x = <<>> THEN x
  ELSE IF x[Len(x)] = 0 THEN BTrim(SubSeq(x, 1, Len(x) - 1)) ELSE x

RECURSIVE NatLimbs(_)
NatLimbs(n) == IF n = 0 THEN <<>> ELSE <<n % Base>> \o NatLimbs(n \div Base)

RECURSIVE BAddC(_, _, _, _)
BAddC(x, y, i, c) ==
  IF i > Len(x) /\ i > Len(y) THEN (IF c = 0 THEN <<>> ELSE <<c>>)
  ELSE LET a == IF i <= Len(x) THEN x[i] ELSE 0
           b == IF i <= Len(y) THEN y[i] ELSE 0
           t == a + b + c
       IN  <<t % Base>> \o BAddC(x, y, i + 1, t \div Base)

BAdd(x, y) == BAddC(x, y, 1, 0)

RECURSIVE BSubC(_, _, _, _)
BSubC(x, y, i, b) ==
  IF i > Len(x) THEN <<>>
  ELSE LET t == x[i] - (IF i <= Len(y) THEN y[i] ELSE 0) - b
       IN  IF t < 0 THEN <<t + Base>> \o BSubC(x, y, i + 1, 1)
           ELSE <<t>> \o BSubC(x, y, i + 1, 0)

\* x - y for x >= y
BSub(x, y) == BTrim(BSubC(x, y, 1, 0))

RECURSIVE BCmpAt(_, _, _)
BCmpAt(x, y, i) ==
  IF i = 0 THEN 0
  ELSE IF x[i] # y[i] THEN (IF x[i] < y[i] THEN -1 ELSE 1)
  ELSE BCmpAt(x, y, i - 1)

\* -1, 0, 1 as x < y, x = y, x > y (both trimmed)
BCmp(x, y) ==
  IF Len(x) # Len(y) THEN (IF Len(x) < Len(y) THEN -1 ELSE 1)
  ELSE BCmpAt(x, y, Len(x))

RECURSIVE BMulSmallC(_, _, _, _)
BMulSmallC(x, d, i, c) ==
  IF i > Len(x) THEN (IF c = 0 THEN <<>> ELSE <<c>>)
  ELSE LET t == x[i] * d + c
       IN  <<t % Base>> \o BMulSmallC(x, d, i + 1, t \div Base)

\* x * d for 0 <= d < Base
BMulSmall(x, d) == IF d = 0 \/ x = <<>> THEN <<>> ELSE BMulSmallC(x, d, 1, 0)

RECURSIVE BMulAt(_, _, _)
BMulAt(x, y, j) ==
  IF j > Len(y) THEN <<>>
  ELSE BAdd(IF y[j] = 0 THEN <<>> ELSE Zeros(j - 1) \o BMulSmall(x, y[j]),
            BMulAt(x, y, j + 1))

BMul(x, y) == IF x = <<>> \/ y = <<>> THEN <<>> ELSE BMulAt(x, y, 1)

\* x * 2^k
BShl(x, k) ==
  IF x = <<>> THEN <<>>
  ELSE Zeros(k \div LimbBits) \o BMulSmall(x, 2 ^ (k % LimbBits))

RECURSIVE BDivSmallR(_, _, _)
BDivSmallR(x, d, i) ==
  IF i > Len(x) THEN [q |-> <<>>, r |-> 0]
  ELSE LET hi == BDivSmallR(x, d, i + 1)
           t  == hi.r * Base + x[i]
       IN  [q |-> <<t \div d>> \o hi.q, r |-> t % d]

\* quotient and remainder of x by d, 0 < d < Base
BDivSmall(x, d) ==
  LET z == BDivSmallR(x, d, 1) IN [q |-> BTrim(z.q), r |-> z.r]

\* floor(x / 2^k)
BShr(x, k) ==
  IF k \div LimbBits >= Len(x) THEN <<>>
  ELSE BDivSmall(SubSeq(x, (k \div LimbBits) + 1, Len(x)), 2 ^ (k % LimbBits)).q

RECURSIVE SmallBitLen(_)
SmallBitLen(n) == IF n = 0 THEN 0 ELSE 1 + SmallBitLen(n \div 2)

BBitLen(x) ==
  IF x = <<>> THEN 0 ELSE LimbBits * (Len(x) - 1) + SmallBitLen(x[Len(x)])

RECURSIVE SmallTz(_)
SmallTz(n) == IF n % 2 = 1 THEN 0 ELSE 1 + SmallTz(n \div 2)

RECURSIVE LowZeroLimbs(_, _)
LowZeroLimbs(x, i) == IF x[i] # 0 THEN i - 1 ELSE LowZeroLimbs(x, i + 1)

(* ---------------------------------------------------------------------- *)
(* binary64 values and their arithmetic.                                   *)
(* ---------------------------------------------------------------------- *)
Zero == [k |-> "fin", s |-> 0, m |-> <<>>, e |-> 0]
NaN  == [k |-> "nan", s |-> 0, m |-> <<>>, e |-> 0]
Inf(s) == [k |-> "inf", s |-> s, m |-> <<>>, e |-> 0]

\* the exact number s * m * 2^e with the mantissa made odd
Canon(s, m, e) ==
  IF m = <<>> \/ s = 0 THEN Zero
  ELSE LET zl == LowZeroLimbs(m, 1)
           m1 == SubSeq(m, zl + 1, Len(m))
           tz == SmallTz(m1[1])
       IN  [k |-> "fin", s |-> s,
            m |-> BDivSmall(m1, 2 ^ tz).q,
            e |-> e + LimbBits * zl + tz]

\* the exact number s * m * 2^e rounded to Precision bits, ties to even
Round(s, m, e) ==
  LET L == BBitLen(m) IN
  IF L <= Precision THEN Canon(s, m, e)
  ELSE LET sh   == L - Precision
           q    == BShr(m, sh)
           r    == BSub(m, BShl(q, sh))
           c    == BCmp(r, BShl(<<1>>, sh - 1))
           up   == c > 0 \/ (c = 0 /\ q[1] % 2 = 1)
       IN  Canon(s, IF up THEN BAdd(q, <<1>>) ELSE q, e + sh)

\* an int as a float (exact below 2^53)
ToFloat(n) ==
  IF n = 0 THEN Zero
  ELSE Round(IF n < 0 THEN -1 ELSE 1, NatLimbs(IF n < 0 THEN -n ELSE n), 0)

IsFin(a) == a.k = "fin"
IsNaN(a) == a.k = "nan"

FNeg(a) == [a EXCEPT !.s = -a.s]

\* the exact sum of two finite values, not rounded (the mantissa may be even)
XAdd(a, b) ==
  IF a.s = 0 THEN b
  ELSE IF b.s = 0 THEN a
  ELSE LET lo == IF a.e < b.e THEN a.e ELSE b.e
           ma == BShl(a.m, a.e - lo)
           mb == BShl(b.m, b.e - lo)
           c  == BCmp(ma, mb)
       IN  IF a.s = b.s THEN [k |-> "fin", s |-> a.s, m |-> BAdd(ma, mb), e |-> lo]
           ELSE IF c = 0 THEN Zero
           ELSE IF c > 0 THEN [k |-> "fin", s |-> a.s, m |-> BSub(ma, mb), e |-> lo]
           ELSE [k |-> "fin", s |-> b.s, m |-> BSub(mb, ma), e |-> lo]

\* a + b
FAdd(a, b) ==
  IF IsNaN(a) \/ IsNaN(b) THEN NaN
  ELSE IF a.k = "inf" /\ b.k = "inf" THEN (IF a.s = b.s THEN a ELSE NaN)
  ELSE IF a.k = "inf" THEN a
  ELSE IF b.k = "inf" THEN b
  ELSE LET x == XAdd(a, b) IN Round(x.s, x.m, x.e)

\* a - b
FSub(a, b) == FAdd(a, FNeg(b))

\* a * b
FMul(a, b) ==
  IF IsNaN(a) \/ IsNaN(b) THEN NaN
  ELSE IF a.k = "inf" \/ b.k = "inf"
       THEN (IF a.s * b.s = 0 THEN NaN ELSE Inf(a.s * b.s))
  ELSE IF a.s * b.s = 0 THEN Zero
  ELSE Round(a.s * b.s, BMul(a.m, b.m), a.e + b.e)

GuardBits == 70

\* a / b, for a divisor whose odd mantissa is a single limb; a numpy float64
\* divided by zero is nan or an infinity (a warning, not an exception)
FDiv(a, b) ==
  IF IsNaN(a) \/ IsNaN(b) THEN NaN
  ELSE IF a.k = "inf" THEN (IF b.k = "inf" THEN NaN
                            ELSE Inf(IF b.s < 0 THEN -a.s ELSE a.s))
  ELSE IF b.k = "inf" THEN Zero
  ELSE IF b.s = 0 THEN (IF a.s = 0 THEN NaN ELSE Inf(a.s))
  ELSE IF a.s = 0 THEN Zero
  ELSE LET z == BDivSmall(BShl(a.m, GuardBits), b.m[1])
           q == BAdd(BMulSmall(z.q, 2), IF z.r # 0 THEN <<1>> ELSE <<>>)
       IN  Round(a.s * b.s, q, a.e - b.e - GuardBits - 1)

\* the sign of a - b for finite a, b
Cmp(a, b) == XAdd(a, FNeg(b)).s

FLe(a, b) == IsFin(a) /\ IsFin(b) /\ Cmp(a, b) <= 0
FLt(a, b) == IsFin(a) /\ IsFin(b) /\ Cmp(a, b) < 0

FAbs(a) == [a EXCEPT !.s = IF a.s < 0 THEN 1 ELSE a.s]

\* the exact product of two finite values, not rounded
XMul(a, b) ==
  IF a.s * b.s = 0 THEN Zero
  ELSE [k |-> "fin", s |-> a.s * b.s, m |-> BMul(a.m, b.m), e |-> a.e + b.e]

\* a * 2^n, exact
Scale(a, n) == IF a.s = 0 THEN a ELSE [a EXCEPT !.e = a.e + n]

(* ---------------------------------------------------------------------- *)
(* The Rate Model: the two derivative functions, operation by operation.   *)
(* y holds numpy float64 values; N is the caller's int, converted by the   *)
(* division; t is not read.                                                *)
(* ---------------------------------------------------------------------- *)
\* slips of the kind the derivative functions invite
SIR_derivatives_dR_gammaS(y, N, beta, gamma) ==
  LET S  == y[1]
      I  == y[2]
      dS == FDiv(FMul(FMul(FNeg(beta), S), I), ToFloat(N))
      dI == FSub(FDiv(FMul(FMul(beta, S), I), ToFloat(N)), FMul(gamma, I))
      dR == FMul(gamma, S)
  IN  <<dS, dI, dR>>

SIR_derivatives_dI_gamma(y, N, beta, gamma) ==
  LET S  == y[1]
      I  == y[2]
      dS == FDiv(FMul(FMul(FNeg(beta), S), I), ToFloat(N))
      dI == FSub(FDiv(FMul(FMul(beta, S), I), ToFloat(N)), gamma)
      dR == FMul(gamma, I)
  IN  <<dS, dI, dR>>

SIR_derivatives_dR_negated(y, N, beta, gamma) ==
  LET S  == y[1]
      I  == y[2]
      dS == FDiv(FMul(FMul(FNeg(beta), S), I), ToFloat(N))
      dI == FSub(FDiv(FMul(FMul(beta, S), I), ToFloat(N)), FMul(gamma, I))
      dR == FMul(FNeg(gamma), I)
  IN  <<dS, dI, dR>>

SIR_derivatives(y, N, beta, gamma) ==
  LET S  == y[1]
      I  == y[2]
      dS == FDiv(FMul(FMul(FNeg(beta), S), I), ToFloat(N))
      dI == FSub(FDiv(FMul(FMul(beta, S), I), ToFloat(N)), FMul(gamma, I))
      dR == FMul(gamma, I)
  IN  <<dS, dI, dR>>

\* the deaths are not taken out of Infected
SEIRDS_derivatives_dI_gamma(y, N, beta, gamma, delta, sigma) ==
  LET S  == y[1]
      E  == y[2]
      I  == y[3]
      dS == FDiv(FMul(FMul(FNeg(beta), S), I), ToFloat(N))
      dE == FSub(FDiv(FMul(FMul(beta, S), I), ToFloat(N)), FMul(sigma, E))
      dI == FSub(FMul(sigma, E), FMul(gamma, I))
      dR == FMul(gamma, I)
      dD == FMul(delta, I)
  IN  <<dS, dE, dI, dR, dD>>

\* the waning immunity the file's comments describe: Recovered flows back into
\* Susceptible at rate sigma
SEIRDS_derivatives_waning(y, N, beta, gamma, delta, sigma) ==
  LET S  == y[1]
      E  == y[2]
      I  == y[3]
      R  == y[4]
      dS == FAdd(FDiv(FMul(FMul(FNeg(beta), S), I), ToFloat(N)), FMul(sigma, R))
      dE == FSub(FDiv(FMul(FMul(beta, S), I), ToFloat(N)), FMul(sigma, E))
      dI == FSub(FMul(sigma, E), FMul(FAdd(gamma, delta), I))
      dR == FSub(FMul(gamma, I), FMul(sigma, R))
      dD == FMul(delta, I)
  IN  <<dS, dE, dI, dR, dD>>

SEIRDS_derivatives(y, N, beta, gamma, delta, sigma) ==
  LET S  == y[1]
      E  == y[2]
      I  == y[3]
      dS == FDiv(FMul(FMul(FNeg(beta), S), I), ToFloat(N))
      dE == FSub(FDiv(FMul(FMul(beta, S), I), ToFloat(N)), FMul(sigma, E))
      dI == FSub(FMul(sigma, E), FMul(FAdd(gamma, delta), I))
      dR == FMul(gamma, I)
      dD == FMul(delta, I)
  IN  <<dS, dE, dI, dR, dD>>

(* ---------------------------------------------------------------------- *)
(* Inputs of one invocation.                                               *)
(* ---------------------------------------------------------------------- *)
MaxPop == 2
MaxCount == 1
MaxHalvings == 1

\* a decimal literal n/d (0.24 is 24/100): the nearest binary64
Dec(n, d) == FDiv(ToFloat(n), ToFloat(d))

\* beta, gamma of sir-basic-model.py, and degenerate choices
SIRParams ==
  { [beta |-> Dec(2, 10), gamma |-> Dec(1, 10), delta |-> Zero, sigma |-> Zero],
    [beta |-> Dec(1, 10), gamma |-> Dec(5, 1000), delta |-> Zero, sigma |-> Zero],
    [beta |-> Zero, gamma |-> Zero, delta |-> Zero, sigma |-> Zero] }

\* beta, gamma, delta, sigma of seirds-epidemiology-model.py, and degenerate choices
SEIRDSParams ==
  { [beta |-> Dec(24, 100), gamma |-> Dec(10, 100), delta |-> Dec(5, 1000),
     sigma |-> Dec(4, 10)],
    [beta |-> Zero, gamma |-> Zero, delta |-> Zero, sigma |-> Zero] }

\* time grids: a single point, increasing, decreasing, not monotonic
TimeGrids == { <<0>>, <<0, 1, 3>>, <<1, 0>>, <<0, 2, 1>> }

Pops == -1 .. MaxPop
Counts == -1 .. MaxCount
NatCounts == 0 .. MaxCount

SIRInputs ==
  { [N |-> n, S0 |-> s0, I0 |-> i0, E0 |-> 0, R0 |-> r0, D0 |-> 0, par |-> p, ts |-> g] :
      n \in Pops, s0 \in NatCounts, i0 \in Counts, r0 \in NatCounts, p \in SIRParams,
      g \in TimeGrids }

SEIRDSInputs ==
  { [N |-> n, S0 |-> 0, I0 |-> i0, E0 |-> e0, R0 |-> r0, D0 |-> d0, par |-> p, ts |-> g] :
      n \in Pops, i0 \in Counts, e0 \in NatCounts, r0 \in NatCounts, d0 \in NatCounts,
      p \in SEIRDSParams, g \in TimeGrids }

\* the two scripts' own scenarios, on a short grid
SIRScript ==
  [N |-> 1000, S0 |-> 1000 - 1 - 0, I0 |-> 1, E0 |-> 0, R0 |-> 0, D0 |-> 0,
   par |-> [beta |-> Dec(2, 10), gamma |-> Dec(1, 10), delta |-> Zero, sigma |-> Zero],
   ts |-> <<0, 1, 2>>]

SEIRDSScript ==
  [N |-> 100000, S0 |-> 0, I0 |-> 100, E0 |-> 0, R0 |-> 20, D0 |-> 0,
   par |-> [beta |-> Dec(24, 100), gamma |-> Dec(10, 100), delta |-> Dec(5, 1000),
            sigma |-> Dec(4, 10)],
   ts |-> <<0, 1, 2>>]

(* ---------------------------------------------------------------------- *)
(* One invocation of SIR_model or SEIRDS_model.                            *)
(* ---------------------------------------------------------------------- *)
VARIABLES
  variant,  \* "SIR" or "SEIRDS": which script's model function is called
  inp,      \* the arguments of the call
  pc,       \* "call", "odeint", "rhs", "step", "returned", "raised"
  y,        \* the solver's current state vector
  dy,       \* the derivatives last returned to the solver (<<>>: none yet)
  h,        \* the solver's current internal step
  left,     \* internal steps left before the next time grid point
  k,        \* index of the next time grid point to report
  table,    \* the rows of the result array so far
  evals     \* how many times the derivative function has been called

vars == <<variant, inp, pc, y, dy, h, left, k, table, evals>>

Init ==
  /\ \/ variant = "SIR" /\ inp \in SIRInputs \cup {SIRScript}
     \/ variant = "SEIRDS" /\ inp \in SEIRDSInputs \cup {SEIRDSScript}
  /\ pc = "call"
  /\ y = <<>>
  /\ dy = <<>>
  /\ h = Zero
  /\ left = 0
  /\ k = 1
  /\ table = <<>>
  /\ evals = 0

\* odeint's own check of t: np.diff(t) all >= 0 or all <= 0
Monotonic(ts) ==
  \/ \A i \in 1 .. Len(ts) - 1 : ts[i] <= ts[i + 1]
  \/ \A i \in 1 .. Len(ts) - 1 : ts[i] >= ts[i + 1]

\* np.asarray(y0, float): the initial conditions as float64
FloatRow(r) == [i \in 1 .. Len(r) |-> ToFloat(r[i])]

\* y0 = S0, I0, R0
SIR_y0(S0, I0, R0) == <<S0, I0, R0>>

\* the initial conditions in the order of the parameters, not of the compartments
SEIRDS_y0_swapped(N, I0, E0, R0, D0) == <<N - I0 - E0 - R0 - D0, I0, E0, R0, D0>>

\* S0 = N - I0 - E0 - R0 - D0;  y0 = S0, E0, I0, R0, D0
SEIRDS_y0(N, I0, E0, R0, D0) == <<N - I0 - E0 - R0 - D0, E0, I0, R0, D0>>

\* odeint is entered with y0: a grid that is not monotonic raises ValueError,
\* otherwise row 0 of the result is y0 itself
OdeintEnter(y0) ==
  IF Monotonic(inp.ts)
  THEN /\ pc' = "odeint"
       /\ y' = FloatRow(y0)
       /\ table' = <<FloatRow(y0)>>
       /\ k' = 2
  ELSE /\ pc' = "raised"
       /\ UNCHANGED <<y, table, k>>

SIR_model ==
  /\ pc = "call"
  /\ variant = "SIR"
  /\ OdeintEnter(SIR_y0(inp.S0, inp.I0, inp.R0))
  /\ UNCHANGED <<variant, inp, dy, h, left, evals>>

SEIRDS_model ==
  /\ pc = "call"
  /\ variant = "SEIRDS"
  /\ OdeintEnter(SEIRDS_y0(inp.N, inp.I0, inp.E0, inp.R0, inp.D0))
  /\ UNCHANGED <<variant, inp, dy, h, left, evals>>

\* the solver turns to the next time grid point: a repeated point is reported at
\* once, otherwise the solver settles on 2^j internal steps across the interval
OdeintNextPoint ==
  /\ pc = "odeint"
  /\ k <= Len(inp.ts)
  /\ LET dt == inp.ts[k] - inp.ts[k - 1] IN
     IF dt = 0
     THEN /\ table' = Append(table, y)
          /\ k' = k + 1
          /\ UNCHANGED <<pc, h, left>>
     ELSE \E j \in 0 .. MaxHalvings :
            /\ h' = FDiv(ToFloat(dt), ToFloat(2 ^ j))
            /\ left' = 2 ^ j
            /\ pc' = "rhs"
            /\ UNCHANGED <<table, k>>
  /\ UNCHANGED <<variant, inp, y, dy, evals>>

\* the solver calls back the derivative function at its current state
CallSIR_derivatives ==
  /\ pc = "rhs"
  /\ variant = "SIR"
  /\ dy' = SIR_derivatives(y, inp.N, inp.par.beta, inp.par.gamma)
  /\ evals' = evals + 1
  /\ pc' = "step"
  /\ UNCHANGED <<variant, inp, y, h, left, k, table>>

CallSEIRDS_derivatives ==
  /\ pc = "rhs"
  /\ variant = "SEIRDS"
  /\ dy' = SEIRDS_derivatives(y, inp.N, inp.par.beta, inp.par.gamma,
                              inp.par.delta, inp.par.sigma)
  /\ evals' = evals + 1
  /\ pc' = "step"
  /\ UNCHANGED <<variant, inp, y, h, left, k, table>>

\* one internal step of the solver: the state moves by h times the derivatives;
\* the step that reaches the time grid point adds a row
Advance(v, d, step) == [i \in 1 .. Len(v) |-> FAdd(v[i], FMul(step, d[i]))]

OdeintStep ==
  /\ pc = "step"
  /\ y' = Advance(y, dy, h)
  /\ left' = left - 1
  /\ IF left = 1
     THEN /\ table' = Append(table, y')
          /\ k' = k + 1
          /\ pc' = "odeint"
     ELSE /\ pc' = "rhs"
          /\ UNCHANGED <<table, k>>
  /\ UNCHANGED <<variant, inp, dy, h, evals>>

\* every time grid point is reported: odeint returns the array, and the model
\* function returns it unchanged
OdeintReturn ==
  /\ pc = "odeint"
  /\ k > Len(inp.ts)
  /\ pc' = "returned"
  /\ UNCHANGED <<variant, inp, y, dy, h, left, k, table, evals>>

Next ==
  \/ SIR_model
  \/ SEIRDS_model
  \/ OdeintNextPoint
  \/ CallSIR_derivatives
  \/ CallSEIRDS_derivatives
  \/ OdeintStep
  \/ OdeintReturn

Spec == Init /\ [][Next]_vars

(* ---------------------------------------------------------------------- *)
(* Vocabulary of the properties.                                           *)
(* ---------------------------------------------------------------------- *)
IsSIR == variant = "SIR"
IxS == 1
IxI == IF IsSIR THEN 2 ELSE 3
IxR == IF IsSIR THEN 3 ELSE 4
IxD == 5

\* the initial conditions handed to odeint, as ints
InitialState ==
  IF IsSIR THEN SIR_y0(inp.S0, inp.I0, inp.R0)
  ELSE SEIRDS_y0(inp.N, inp.I0, inp.E0, inp.R0, inp.D0)

\* the initial counts other than Susceptible that the caller supplies
OtherCounts ==
  IF IsSIR THEN <<inp.I0, inp.R0>> ELSE <<inp.I0, inp.E0, inp.R0, inp.D0>>

RECURSIVE IntSum(_)
IntSum(r) == IF r = <<>> THEN 0 ELSE r[1] + IntSum(Tail(r))

\* S0 as the spec derives it
DerivedS0 == inp.N - IntSum(OtherCounts)

InvalidInit == (\E i \in 1 .. Len(OtherCounts) : OtherCounts[i] < 0) \/ DerivedS0 < 0

NonNegParams ==
  /\ inp.par.beta.s >= 0
  /\ inp.par.gamma.s >= 0
  /\ inp.par.delta.s >= 0
  /\ inp.par.sigma.s >= 0

\* positive N, non-negative compartments that sum to N, non-negative parameters
WellPosed ==
  /\ inp.N > 0
  /\ \A i \in 1 .. Len(InitialState) : InitialState[i] >= 0
  /\ IntSum(InitialState) = inp.N
  /\ NonNegParams

GridValid ==
  /\ Len(inp.ts) >= 2
  /\ \A i \in 1 .. Len(inp.ts) - 1 : inp.ts[i] < inp.ts[i + 1]

GridForward == \A i \in 1 .. Len(inp.ts) - 1 : inp.ts[i] <= inp.ts[i + 1]

\* the derivative function is never called and no table is ever returned: the
\* call failed before integrating
FailedFast == evals = 0 /\ pc # "returned"

NonNegState(v) == \A i \in 1 .. Len(v) : IsFin(v[i]) /\ v[i].s >= 0

\* r[1] + r[2] + ... in floating point, left to right
RECURSIVE FSumTo(_, _)
FSumTo(r, n) == IF n = 1 THEN r[1] ELSE FAdd(FSumTo(r, n - 1), r[n])
FSum(r) == FSumTo(r, Len(r))

\* the exact sum of the absolute values
RECURSIVE XAbsSumTo(_, _)
XAbsSumTo(r, n) == IF n = 0 THEN Zero ELSE XAdd(XAbsSumTo(r, n - 1), FAbs(r[n]))
XAbsSum(r) == XAbsSumTo(r, Len(r))

AllFin(r) == \A i \in 1 .. Len(r) : IsFin(r[i])

\* |x - n| <= 1e-6 * |n|, compared exactly
WithinTolerance(x, n) ==
  /\ IsFin(x)
  /\ Cmp(XMul(FAbs(XAdd(x, FNeg(ToFloat(n)))), ToFloat(1000000)), FAbs(ToFloat(n))) <= 0

\* x < -1e-6 * n, compared exactly
BelowTolerance(x, n) ==
  /\ IsFin(x)
  /\ Cmp(XMul(x, ToFloat(1000000)), FNeg(ToFloat(n))) < 0

(* ---------------------------------------------------------------------- *)
(* C1: the returned derivatives sum to zero.                               *)
(* ---------------------------------------------------------------------- *)
\* C1 as stated: at every evaluation of SIR_derivatives or SEIRDS_derivatives
\* on a non-negative state with non-negative parameters and positive N, the
\* returned derivatives, added up, are exactly zero.
C1_SumExactlyZero ==
  (pc = "step" /\ inp.N > 0 /\ NonNegParams /\ NonNegState(y))
    => FSum(dy) = Zero

\* C1 amended: under the same conditions the derivatives sum to zero up to
\* floating-point rounding: |dS + dI + ...| <= 2^-48 * (|dS| + |dI| + ...).
C1_SumZeroUpToRounding ==
  (pc = "step" /\ inp.N > 0 /\ NonNegParams /\ NonNegState(y))
    => /\ AllFin(dy)
       /\ Cmp(FAbs(FSum(dy)), Scale(XAbsSum(dy), -48)) <= 0

\* an evaluation on a non-negative state whose sum is not zero, though tiny
C1_Witness ==
  /\ pc = "step" /\ inp.N > 0 /\ NonNegParams /\ NonNegState(y)
  /\ FSum(dy) # Zero
  /\ dy[1].s < 0

C4_InvalidInitRejected == (InvalidInit /\ inp.N > 0 /\ GridValid) => FailedFast

\* C5: N <= 0 makes the call (its time grid valid, its initial counts not
\* negative) fail before the derivative function is called even once, returning
\* no table.
C5_NonPositiveNRejected ==
  (inp.N <= 0 /\ GridValid /\ \A i \in 1 .. Len(OtherCounts) : OtherCounts[i] >= 0)
    => FailedFast

\* C6: a time grid of fewer than 2 points or not strictly increasing makes the
\* call (otherwise well-posed) fail before integration; a valid grid yields one
\* row per grid point.
C6_BadGridRejected ==
  /\ (~GridValid /\ WellPosed) => FailedFast
  /\ (GridValid /\ pc = "returned") => Len(table) = Len(inp.ts)

(* ---------------------------------------------------------------------- *)
(* C7: the disease-free run is constant.                                   *)
(* ---------------------------------------------------------------------- *)
DiseaseFree ==
  /\ inp.I0 = 0
  /\ IsSIR \/ inp.E0 = 0
  /\ inp.N > 0
  /\ NonNegParams

C9_NegativeNeverReturned ==
  (pc = "returned" /\ inp.N > 0 /\ GridValid) =>
    \A i \in 2 .. Len(table) : \A c \in 1 .. Len(table[i]) :
      ~BelowTolerance(table[i][c], inp.N)

(* ---------------------------------------------------------------------- *)
(* C10: Recovered and Deceased are absorbing.                              *)
(* ---------------------------------------------------------------------- *)
RowsNonDecreasing(c) ==
  \A i \in 1 .. Len(table) - 1 : FLe(table[i][c], table[i + 1][c])

====
